---- MODULE Spec2Model ----
(***************************************************************************)
(* A model of enhanced_logger.EnhancedLogger: the sinks (HTTPHandler,      *)
(* UniversalDBHandler and the stream handlers of the configure_* calls)    *)
(* attached to one named logger and driven by concurrent threads, and the  *)
(* instrumentation wrappers (TraceLogger.trace,                            *)
(* PerformanceLogger.log_performance, json_log).                           *)
(***************************************************************************)
EXTENDS Integers, Sequences, FiniteSets, TLC

VARIABLES
    handlers,     \* logging.getLogger(name).handlers: the attached handler objects
    loggerLevel,  \* the named logger's own level
    nrec,         \* LogRecords created so far (the record's timestamp)
    pc,           \* per thread: where it is inside logger.info(...)
    idx,          \* per thread: index of the handler callHandlers is visiting
    cur,          \* per thread: the LogRecord in flight
    result,       \* per thread: how its last operation ended
    delivered,    \* per thread: <<handler index, handler closed>> for each
                  \* Handler.handle entered by its current or last log call
    ncalls,       \* configuration calls made for the logger's name
    nreturned,    \* those of them that returned the logger
    stack,        \* the Python call stack of wrapper invocations
    events,       \* what the wrappers did, in order
    tracing,      \* tracemalloc.is_tracing()
    ninv,         \* wrapper invocations started so far
    done          \* invocation id -> how the invocation ended

callVars == <<ncalls, nreturned>>
sinkVars == <<handlers, loggerLevel, nrec, pc, idx, cur, result, delivered,
              ncalls, nreturned>>
wrapVars == <<stack, events, tracing, ninv, done>>
vars == <<handlers, loggerLevel, nrec, pc, idx, cur, result, delivered,
          ncalls, nreturned, stack, events, tracing, ninv, done>>

----------------------------------------------------------------------------
(* Bounds of the model *)

NThreads == 2
\* configuration calls made for the logger's name, hence handlers attached
MaxHandlers == 2
MaxRecords == 2

Threads == 1 .. NThreads

----------------------------------------------------------------------------
(* The logging facility's levels and acceptance test *)

LevelNo(l) ==
    CASE l = "NOTSET" -> 0
      [] l = "DEBUG" -> 10
      [] l = "INFO" -> 20
      [] l = "WARNING" -> 30

\* Logger.getEffectiveLevel: a logger whose level is NOTSET takes the root
\* logger's level, WARNING.
EffectiveLevel(l) == IF l = "NOTSET" THEN "WARNING" ELSE l

IsEnabledFor(lvl, l) == LevelNo(lvl) >= LevelNo(EffectiveLevel(l))

LoggerName == "db_logger"

None == "None"

----------------------------------------------------------------------------
(* Handler objects *)

DBTypes == {"sqlite", "mongodb", "postgres"}

\* logging.Handler.__init__ via super().__init__(): level NOTSET, a fresh lock,
\* no formatter.
NewHandler(kind, fmt, db_type, t) ==
    [kind |-> kind, fmt |-> fmt, db_type |-> db_type,
     owner |-> IF db_type = "sqlite" THEN t ELSE 0,
     connOpen |-> kind = "db" /\ db_type # "mongodb", closed |-> FALSE,
     lock |-> 0, rows |-> <<>>, out |-> <<>>, errors |-> 0]

\* a create_connection without the final else: an unknown db_type falls
\* through and None is returned as the connection
create_connection_NoElse(db_type, drv, conn) ==
    IF db_type = "sqlite" THEN (IF conn THEN None ELSE "OperationalError")
    ELSE IF db_type = "mongodb" THEN (IF drv THEN None ELSE "UnboundLocalError")
    ELSE IF db_type = "postgres"
         THEN (IF ~drv THEN "UnboundLocalError"
               ELSE IF conn THEN None ELSE "OperationalError")
    ELSE None

\* create_connection: which exception, if any, construction ends with.
\* drv: whether importing the dialect's driver succeeds; conn: whether the
\* server or file can be reached.
create_connection(db_type, drv, conn) ==
    IF db_type = "sqlite" THEN (IF conn THEN None ELSE "OperationalError")
    ELSE IF db_type = "mongodb" THEN (IF drv THEN None ELSE "UnboundLocalError")
    ELSE IF db_type = "postgres"
         THEN (IF ~drv THEN "UnboundLocalError"
               ELSE IF conn THEN None ELSE "OperationalError")
    ELSE "ValueError"

Idle(t) == pc[t] = "idle"

Finish(t, op, exc) == result' = [result EXCEPT ![t] = [op |-> op, exc |-> exc, n |-> 0]]

----------------------------------------------------------------------------
(* Python values a record's context can hold *)

PyNone == [type |-> "NoneType", val |-> "None"]

PyInt(n) == [type |-> "int", val |-> n]

PyStr(str) == [type |-> "str", val |-> str]

\* object(): an instance of a class the json module has no encoding for
PyObject == [type |-> "object", val |-> "<object object>"]

PyTuple(items) == [type |-> "tuple", val |-> items]

\* a dict with string keys
PyDict(items) == [type |-> "dict", val |-> items]

\* getattr(record, 'context', None) of a record made without extra
NoContext == PyNone

\* the context of the test file's json_logger.info(..., extra=context_info)
UserContext ==
    PyDict([user_id |-> PyInt(12345), transaction_id |-> PyStr("abcde12345")])

\* the context of the records json_log's wrapper emits for func(*args)
WrapperContext(args) == PyDict([args |-> PyTuple(args), kwargs |-> PyDict(<<>>)])

\* the contexts given to logger.info here: none, the test's, the wrapper's
\* for add(5, 3) and the wrapper's for a call with an object() argument
Contexts ==
    {NoContext, UserContext, WrapperContext(<<PyInt(5), PyInt(3)>>),
     WrapperContext(<<PyObject>>)}

----------------------------------------------------------------------------
(* Formatters *)

formatTime(record) == <<"asctime", record.ts>>

\* logging.Formatter.format with the default format string "%(message)s"
DefaultFormat(record) == <<"text", record.msg>>

\* json.dumps(value) with no default= raises TypeError unless the value is
\* None, an int, a str, or a tuple or dict of such values
RECURSIVE JsonSerializable(_)
JsonSerializable(v) ==
    IF v.type \in {"NoneType", "int", "str"} THEN TRUE
    ELSE IF v.type = "tuple" THEN \A i \in DOMAIN v.val : JsonSerializable(v.val[i])
    ELSE IF v.type = "dict" THEN \A k \in DOMAIN v.val : JsonSerializable(v.val[k])
    ELSE FALSE

\* json.dumps(value), as the JSON value the text denotes: a tuple becomes an
\* array, a dict an object, None null
RECURSIVE json_dumps(_)
json_dumps(v) ==
    IF v.type = "NoneType" THEN [json |-> "null", val |-> <<>>]
    ELSE IF v.type = "int" THEN [json |-> "number", val |-> v.val]
    ELSE IF v.type = "str" THEN [json |-> "string", val |-> v.val]
    ELSE IF v.type = "tuple"
    THEN [json |-> "array", val |-> [i \in DOMAIN v.val |-> json_dumps(v.val[i])]]
    ELSE IF v.type = "dict"
    THEN [json |-> "object", val |-> [k \in DOMAIN v.val |-> json_dumps(v.val[k])]]
    ELSE [json |-> "string", val |-> v.val]

\* JsonFormatter.format: the exception json.dumps(log_entry) raises, or None.
\* The other six values are strings and an int.
JsonFormatRaises(record) ==
    IF JsonSerializable(record.context) THEN None ELSE "TypeError"

\* JsonFormatter.format: the seven keys
JsonFormat(record) ==
    [timestamp |-> formatTime(record), name |-> record.name,
     level |-> record.levelname, message |-> record.msg,
     context |-> json_dumps(record.context), function |-> record.funcName,
     line_no |-> record.lineno]

\* str(value), the text of an XML child element
py_str(value) == <<"str", value>>

\* XMLFormatter.format: a log element with one child per key, in this order
XMLFormat(record) ==
    <<"log",
      <<"timestamp", py_str(formatTime(record))>>, <<"name", py_str(record.name)>>,
      <<"level", py_str(record.levelname)>>, <<"message", py_str(record.msg)>>,
      <<"context", py_str(record.context)>>, <<"function", py_str(record.funcName)>>,
      <<"line_no", py_str(record.lineno)>> >>

\* Handler.format: the handler's formatter, or the default one
Format(h, record) ==
    IF h.fmt = "json" THEN JsonFormat(record)
    ELSE IF h.fmt = "xml" THEN XMLFormat(record)
    ELSE DefaultFormat(record)

\* the exception Handler.format ends with, or None
FormatRaises(h, record) ==
    IF h.fmt = "json" THEN JsonFormatRaises(record) ELSE None

----------------------------------------------------------------------------
(* Configuration calls; each is run by a thread that is not inside a call *)

configure_http_logger(t) ==
    /\ Idle(t)
    /\ ncalls < MaxHandlers
    /\ ncalls' = ncalls + 1
    /\ nreturned' = nreturned + 1
    /\ loggerLevel' = "DEBUG"
    /\ handlers' = Append(handlers, NewHandler("http", "default", None, t))
    /\ Finish(t, "configure", None)
    /\ UNCHANGED <<nrec, pc, idx, cur, delivered>>
    /\ UNCHANGED wrapVars

\* setLevel runs before the handler is constructed, so it happens even when
\* UniversalDBHandler(...) raises and no handler is added.
configure_db_logger(t, db_type, drv, conn) ==
    /\ Idle(t)
    /\ ncalls < MaxHandlers
    /\ ncalls' = ncalls + 1
    /\ loggerLevel' = "DEBUG"
    /\ LET exc == create_connection(db_type, drv, conn) IN
         /\ nreturned' = IF exc = None THEN nreturned + 1 ELSE nreturned
         /\ handlers' = IF exc = None
                        THEN Append(handlers, NewHandler("db", "default", db_type, t))
                        ELSE handlers
         /\ result' = [result EXCEPT ![t] =
                         [op |-> "configure_db_logger", exc |-> exc, n |-> 0,
                          db_type |-> db_type, drv |-> drv, conn |-> conn]]
    /\ UNCHANGED <<nrec, pc, idx, cur, delivered>>
    /\ UNCHANGED wrapVars

\* a configure_json_logger that attaches nothing when the logger already has
\* a StreamHandler with a JsonFormatter
configure_json_logger_Dedup(t) ==
    /\ Idle(t)
    /\ ncalls < MaxHandlers
    /\ ncalls' = ncalls + 1
    /\ nreturned' = nreturned + 1
    /\ handlers' = IF \E i \in 1 .. Len(handlers) :
                          handlers[i].kind = "stream" /\ handlers[i].fmt = "json"
                   THEN handlers
                   ELSE Append(handlers, NewHandler("stream", "json", None, t))
    /\ Finish(t, "configure", None)
    /\ UNCHANGED <<loggerLevel, nrec, pc, idx, cur, delivered>>
    /\ UNCHANGED wrapVars

\* No setLevel here: the logger keeps the level it had.
configure_json_logger(t) ==
    /\ Idle(t)
    /\ ncalls < MaxHandlers
    /\ ncalls' = ncalls + 1
    /\ nreturned' = nreturned + 1
    /\ handlers' = Append(handlers, NewHandler("stream", "json", None, t))
    /\ Finish(t, "configure", None)
    /\ UNCHANGED <<loggerLevel, nrec, pc, idx, cur, delivered>>
    /\ UNCHANGED wrapVars

\* No setLevel here either.
configure_xml_logger(t) ==
    /\ Idle(t)
    /\ ncalls < MaxHandlers
    /\ ncalls' = ncalls + 1
    /\ nreturned' = nreturned + 1
    /\ handlers' = Append(handlers, NewHandler("stream", "xml", None, t))
    /\ Finish(t, "configure", None)
    /\ UNCHANGED <<loggerLevel, nrec, pc, idx, cur, delivered>>
    /\ UNCHANGED wrapVars

\* configure_logger(name, formatter): the logger is set to DEBUG and gets one
\* more StreamHandler. The handler's own level, DEBUG, lets every record
\* through, as the NOTSET of the other handlers does.
configure_logger(t, formatter) ==
    /\ Idle(t)
    /\ ncalls < MaxHandlers
    /\ ncalls' = ncalls + 1
    /\ nreturned' = nreturned + 1
    /\ loggerLevel' = "DEBUG"
    /\ handlers' = Append(handlers, NewHandler("stream", formatter, None, t))
    /\ Finish(t, "configure", None)
    /\ UNCHANGED <<nrec, pc, idx, cur, delivered>>
    /\ UNCHANGED wrapVars

\* json_log(logger_name), lines 204-205, run when a function is decorated:
\* configure_logger with a JsonFormatter
json_log(t) == configure_logger(t, "json")

----------------------------------------------------------------------------
(* logger.info(msg): Logger.info -> isEnabledFor -> handle -> callHandlers *)

\* the value of cur[t] while thread t is not inside a log call
NoRecord ==
    [ts |-> 0, name |-> LoggerName, levelname |-> "INFO", msg |-> 0,
     context |-> NoContext, funcName |-> "caller", lineno |-> 0]

NewRecord(t, ts, context) ==
    [ts |-> ts, name |-> LoggerName, levelname |-> "INFO", msg |-> t,
     context |-> context, funcName |-> "caller", lineno |-> t]

\* logger.info(msg, extra={'context': context}) by thread t; context is
\* NoContext when the call has no extra
Info(t, context) ==
    /\ Idle(t)
    /\ nrec < MaxRecords
    /\ nrec' = nrec + 1
    /\ IF IsEnabledFor("INFO", loggerLevel)
       THEN /\ pc' = [pc EXCEPT ![t] = "callHandlers"]
            /\ cur' = [cur EXCEPT ![t] = NewRecord(t, nrec + 1, context)]
            /\ result' = [result EXCEPT ![t] =
                            [op |-> "log", exc |-> "pending", n |-> Len(handlers)]]
       ELSE /\ result' = [result EXCEPT ![t] =
                            [op |-> "dropped", exc |-> None, n |-> 0]]
            /\ UNCHANGED <<pc, cur>>
    /\ delivered' = [delivered EXCEPT ![t] = {}]
    /\ UNCHANGED <<handlers, loggerLevel, idx>>
    /\ UNCHANGED callVars
    /\ UNCHANGED wrapVars

\* logger.info(msg)
Log(t) == Info(t, NoContext)

\* callHandlers has visited every handler: logger.info returns.
ReturnFromLog(t) ==
    /\ pc[t] = "callHandlers"
    /\ idx[t] > Len(handlers)
    /\ pc' = [pc EXCEPT ![t] = "idle"]
    /\ idx' = [idx EXCEPT ![t] = 1]
    /\ cur' = [cur EXCEPT ![t] = NoRecord]
    /\ result' = [result EXCEPT ![t].exc = None]
    /\ UNCHANGED <<handlers, loggerLevel, nrec, delivered>>
    /\ UNCHANGED callVars
    /\ UNCHANGED wrapVars

\* a handler whose handle() takes no lock
LockFree_NoLock(h) == TRUE

\* Handler.acquire: the handler's lock is free
LockFree(h) == h.lock = 0

\* Handler.handle: take the handler's lock, then emit under it
Handle(t) ==
    /\ pc[t] = "callHandlers"
    /\ idx[t] <= Len(handlers)
    /\ LockFree(handlers[idx[t]])
    /\ handlers' = [handlers EXCEPT ![idx[t]].lock = t]
    /\ delivered' = [delivered EXCEPT ![t] = @ \cup {<<idx[t], handlers[idx[t]].closed>>}]
    /\ pc' = [pc EXCEPT ![t] = "emit"]
    /\ UNCHANGED <<loggerLevel, nrec, idx, cur, result>>
    /\ UNCHANGED callVars
    /\ UNCHANGED wrapVars

\* emit returned: Handler.handle releases the lock, callHandlers moves on
Advance(t, h) ==
    /\ handlers' = [handlers EXCEPT ![idx[t]] = [h EXCEPT !.lock = 0]]
    /\ idx' = [idx EXCEPT ![t] = idx[t] + 1]
    /\ pc' = [pc EXCEPT ![t] = "callHandlers"]
    /\ UNCHANGED <<cur, result>>

\* emit raised: Handler.handle releases the lock in its finally clause and the
\* exception leaves callHandlers, Logger.handle and logger.info.
Raise(t, h, exc) ==
    /\ handlers' = [handlers EXCEPT ![idx[t]] = [h EXCEPT !.lock = 0]]
    /\ pc' = [pc EXCEPT ![t] = "idle"]
    /\ idx' = [idx EXCEPT ![t] = 1]
    /\ cur' = [cur EXCEPT ![t] = NoRecord]
    /\ result' = [result EXCEPT ![t].exc = exc]

----------------------------------------------------------------------------
(* HTTPHandler *)

HTTPOutcomes == {"2xx", "3xx", "4xx", "5xx", "ConnectionError", "Timeout"}

\* response.raise_for_status(): HTTPError for a 4xx or 5xx status
raise_for_status(status) == IF status \in {"4xx", "5xx"} THEN "HTTPError" ELSE None

\* what the body of the try block raises: requests.request raises on a
\* transport failure, else raise_for_status looks at the response
RequestRaises(outcome) ==
    IF outcome \in {"ConnectionError", "Timeout"} THEN outcome
    ELSE raise_for_status(outcome)

\* an except clause that names only the transport failures
IsRequestException_OnlyTransport(exc) == exc \in {"ConnectionError", "Timeout"}

\* except requests.RequestException: the exceptions the clause catches
IsRequestException(exc) == exc \in {"HTTPError", "ConnectionError", "Timeout"}

\* the deliveries the spec calls failed: an error status or a transport failure
DeliveryFailed(outcome) == outcome \notin {"2xx", "3xx"}

\* Handler.handleError(record): a diagnostic on stderr, nothing raised
handleError(h) == [h EXCEPT !.errors = @ + 1]

HTTPHandler_emit(t, outcome) ==
    /\ pc[t] = "emit"
    /\ handlers[idx[t]].kind = "http"
    /\ LET h == handlers[idx[t]]
           log_entry == Format(h, cur[t])
           exc == RequestRaises(outcome)
           sent == [h EXCEPT !.out = Append(@, [body |-> log_entry,
                                                failed |-> DeliveryFailed(outcome)])]
       IN  IF FormatRaises(h, cur[t]) # None
           THEN \* line 34, before the try
                Raise(t, h, FormatRaises(h, cur[t]))
           ELSE IF exc = None THEN Advance(t, sent)
           ELSE IF IsRequestException(exc) THEN Advance(t, handleError(sent))
           ELSE Raise(t, sent, exc)
    /\ UNCHANGED <<loggerLevel, nrec, delivered>>
    /\ UNCHANGED callVars
    /\ UNCHANGED wrapVars

\* logging.StreamHandler.emit: format and write inside try; any Exception goes
\* to handleError. ok: stream.write succeeds.
StreamHandler_emit(t, ok) ==
    /\ pc[t] = "emit"
    /\ handlers[idx[t]].kind = "stream"
    /\ LET h == handlers[idx[t]]
           line == [body |-> Format(h, cur[t]), failed |-> FALSE]
       IN  IF FormatRaises(h, cur[t]) = None /\ ok
           THEN Advance(t, [h EXCEPT !.out = Append(@, line)])
           ELSE Advance(t, handleError(h))
    /\ UNCHANGED <<loggerLevel, nrec, delivered>>
    /\ UNCHANGED callVars
    /\ UNCHANGED wrapVars

----------------------------------------------------------------------------
(* UniversalDBHandler *)

\* a handler class that also had the Formatter's formatTime and datefmt
UniversalDBHandlerAttrs_WithFormatter ==
    {"db_type", "connection_params", "conn", "create_connection", "emit",
     "format", "handle", "handleError", "acquire", "release", "close",
     "formatTime", "datefmt"}

\* The attributes a UniversalDBHandler instance has: those of logging.Handler
\* and those the class and its __init__ define. formatTime and datefmt belong
\* to logging.Formatter, not to logging.Handler.
UniversalDBHandlerAttrs ==
    {"db_type", "connection_params", "conn", "create_connection", "emit",
     "format", "handle", "handleError", "acquire", "release", "close"}

\* lines 73-85: the dialect's insert, then commit. ok: the store accepts the
\* write. Yields the exception raised, or None.
WriteRaises(h, t, ok) ==
    IF h.db_type = "sqlite"
    THEN (IF h.owner # t \/ ~h.connOpen THEN "ProgrammingError"
          ELSE IF ok THEN None ELSE "OperationalError")
    ELSE IF h.db_type = "postgres"
    THEN (IF ~h.connOpen THEN "InterfaceError"
          ELSE IF ok THEN None ELSE "OperationalError")
    ELSE (IF ok THEN None ELSE "PyMongoError")

UniversalDBHandler_emit(t, ok) ==
    /\ pc[t] = "emit"
    /\ handlers[idx[t]].kind = "db"
    /\ LET h == handlers[idx[t]] IN
         IF ~({"formatTime", "datefmt"} \subseteq UniversalDBHandlerAttrs)
         THEN \* line 68: self.formatTime
              Raise(t, h, "AttributeError")
         ELSE LET log_entry == <<formatTime(cur[t]), cur[t].name, cur[t].levelname,
                                 cur[t].msg>>
                  exc == WriteRaises(h, t, ok)
              IN  IF exc = None
                  THEN Advance(t, [h EXCEPT !.rows = Append(@, log_entry)])
                  ELSE Raise(t, h, exc)
    /\ UNCHANGED <<loggerLevel, nrec, delivered>>
    /\ UNCHANGED callVars
    /\ UNCHANGED wrapVars

\* handler.close() on any handler: UniversalDBHandler defines no close of its
\* own (the def close of line 87 is indented as a member of EnhancedLogger),
\* so this is logging.Handler.close: it marks the handler closed and leaves
\* self.conn alone.
Handler_close(t, i) ==
    /\ Idle(t)
    /\ i \in 1 .. Len(handlers)
    /\ handlers' = [handlers EXCEPT ![i].closed = TRUE]
    /\ Finish(t, "close", None)
    /\ UNCHANGED <<loggerLevel, nrec, pc, idx, cur, delivered>>
    /\ UNCHANGED callVars
    /\ UNCHANGED wrapVars

\* EnhancedLogger.close(self), lines 87-90: a method of EnhancedLogger, whose
\* instances have no db_type, so its first line raises AttributeError and
\* neither conn.close() nor super().close() is reached. No sink is touched.
close(t) ==
    /\ Idle(t)
    /\ Finish(t, "EnhancedLogger.close", "AttributeError")
    /\ UNCHANGED <<handlers, loggerLevel, nrec, pc, idx, cur, delivered>>
    /\ UNCHANGED callVars
    /\ UNCHANGED wrapVars

----------------------------------------------------------------------------

Init ==
    /\ handlers = <<>>
    /\ loggerLevel = "NOTSET"
    /\ nrec = 0
    /\ pc = [t \in Threads |-> "idle"]
    /\ idx = [t \in Threads |-> 1]
    /\ cur = [t \in Threads |-> NoRecord]
    /\ result = [t \in Threads |-> [op |-> "none", exc |-> None, n |-> 0]]
    /\ delivered = [t \in Threads |-> {}]
    /\ ncalls = 0
    /\ nreturned = 0
    /\ stack = <<>>
    /\ events = <<>>
    /\ tracing = FALSE
    /\ ninv = 0
    /\ done = <<>>

Next ==
    \/ \E t \in Threads : configure_http_logger(t)
    \/ \E t \in Threads, d \in DBTypes \cup {"oracle"}, drv \in BOOLEAN, conn \in BOOLEAN :
          configure_db_logger(t, d, drv, conn)
    \/ \E t \in Threads : configure_json_logger(t)
    \/ \E t \in Threads : Log(t)
    \/ \E t \in Threads : Handle(t)
    \/ \E t \in Threads : ReturnFromLog(t)
    \/ \E t \in Threads, o \in HTTPOutcomes : HTTPHandler_emit(t, o)
    \/ \E t \in Threads, ok \in BOOLEAN : StreamHandler_emit(t, ok)
    \/ \E t \in Threads, ok \in BOOLEAN : UniversalDBHandler_emit(t, ok)
    \/ \E t \in Threads, i \in 1 .. MaxHandlers : Handler_close(t, i)
    \/ \E t \in Threads : close(t)

Spec == Init /\ [][Next]_vars

\* what the constructor of a Storage Sink can meet: sqlite3 is imported with
\* the module, MongoClient(...) does not connect when it is constructed
ConstructorInputs ==
    {<<"sqlite", TRUE, TRUE>>, <<"sqlite", TRUE, FALSE>>,
     <<"mongodb", TRUE, TRUE>>, <<"mongodb", FALSE, TRUE>>,
     <<"postgres", TRUE, TRUE>>, <<"postgres", TRUE, FALSE>>,
     <<"postgres", FALSE, TRUE>>, <<"oracle", TRUE, TRUE>>}

\* Every configuration call there is for a named logger, and info records
\* with and without context; no sink is closed.
NextConfig ==
    \/ \E t \in Threads : configure_http_logger(t)
    \/ \E t \in Threads, in \in ConstructorInputs :
          configure_db_logger(t, in[1], in[2], in[3])
    \/ \E t \in Threads : configure_json_logger(t)
    \/ \E t \in Threads : configure_xml_logger(t)
    \/ \E t \in Threads : json_log(t)
    \/ \E t \in Threads, context \in Contexts : Info(t, context)
    \/ \E t \in Threads : Handle(t)
    \/ \E t \in Threads : ReturnFromLog(t)
    \/ \E t \in Threads, o \in HTTPOutcomes : HTTPHandler_emit(t, o)
    \/ \E t \in Threads, ok \in BOOLEAN : StreamHandler_emit(t, ok)
    \/ \E t \in Threads, ok \in BOOLEAN : UniversalDBHandler_emit(t, ok)

SpecConfig == Init /\ [][NextConfig]_vars

----------------------------------------------------------------------------
(* The instrumentation wrappers, run by one thread.                        *)
(* A frame of stack is one invocation of a wrapper; events is the order in *)
(* which records were emitted and the wrapped callables were entered and   *)
(* left; done[id] is how invocation id ended.                              *)

MaxArg == 1
MaxCalls == 2

Args == 0 .. MaxArg

\* the callables of the test file that get wrapped
Funcs == {"sample_function", "divide", "compute_factorial"}

ArgsOf(func) ==
    IF func = "compute_factorial" THEN {<<n>> : n \in Args}
    ELSE {<<x, y>> : x \in Args, y \in Args}

\* def sample_function(x, y): return x + y
sample_function(x, y) == x + y

\* def divide(x, y): the exception it raises, or None
divide_raises(x, y) == IF y = 0 THEN "ValueError" ELSE None

\* def divide(x, y): return x / y, a float
divide(x, y) == <<"float", x, y>>

\* def compute_factorial(n), after the nested call returned r
compute_factorial_resume(n, r) == n * r

\* class TraceLogger: def __init__(self, name, level=logging.DEBUG), as
\* configure_trace_logger constructs it
TraceLoggerLevel_Info == "INFO"

TraceLoggerLevel == "DEBUG"

\* class PerformanceLogger: def __init__(self, name, level=logging.DEBUG)
PerformanceLoggerLevel_Warning == "WARNING"

PerformanceLoggerLevel == "DEBUG"

\* Logger.debug / Logger.info on a wrapper's logger: the record reaches the
\* StreamHandler when the logger is enabled for its level.
LogTo(evs, lvl, loggerlvl, id, msg) ==
    IF IsEnabledFor(lvl, loggerlvl)
    THEN Append(evs, [ev |-> "log", inv |-> id, level |-> lvl, msg |-> msg])
    ELSE evs

\* configure_logger, line 226: logger.setLevel(logging.DEBUG), run by json_log
\* before the decorator exists
JsonLoggerLevel == "DEBUG"

\* json_log, wrapper, lines 210-215: the extra both of its records are given
context_info(args, kwargs) == [context |-> [args |-> args, kwargs |-> kwargs]]

\* Logger.info(msg, extra=extra): makeRecord copies the keys of extra into
\* the record, so the record has a context attribute
LogExtra(evs, lvl, loggerlvl, id, msg, extra) ==
    IF IsEnabledFor(lvl, loggerlvl)
    THEN Append(evs, [ev |-> "log", inv |-> id, level |-> lvl, msg |-> msg,
                      context |-> extra.context])
    ELSE evs

\* a wrapper that raises an error of its own in place of the callable's
WrapperPropagates_Replaced(exc) == "RuntimeError"

\* the wrappers have no try/except around func(*args, **kwargs): what the
\* callable raises is what the wrapper's caller gets
WrapperPropagates(exc) == exc

Top == stack[Len(stack)]

SetTop(f) == [stack EXCEPT ![Len(stack)] = f]

\* a wrapper is called: from outside when nothing is running, or by the
\* wrapped callable itself (parent is the calling invocation)
Push(st, kind, func, args, parent) ==
    /\ ninv' = ninv + 1
    /\ stack' = Append(st, [id |-> ninv + 1, kind |-> kind, func |-> func,
                            args |-> args, pc |-> "start", val |-> None])
    /\ done' = Append(done, [kind |-> kind, func |-> func, args |-> args,
                             parent |-> parent, status |-> "running",
                             value |-> None])

Call(kind, func, args) ==
    /\ stack = <<>>
    /\ Cardinality({i \in 1 .. Len(done) : done[i].parent = 0}) < MaxCalls
    /\ Push(stack, kind, func, args, 0)
    /\ UNCHANGED <<events, tracing>>
    /\ UNCHANGED sinkVars

\* the wrapper returns ret: its frame is popped; a calling compute_factorial
\* goes on with n * ret and returns that
Return(evs, ret) ==
    LET rest == SubSeq(stack, 1, Len(stack) - 1) IN
    /\ done' = [done EXCEPT ![Top.id].status = "returned", ![Top.id].value = ret]
    /\ IF rest = <<>>
       THEN /\ stack' = <<>>
            /\ events' = evs
       ELSE LET caller == rest[Len(rest)]
                v == compute_factorial_resume(caller.args[1], ret)
            IN  /\ stack' = [rest EXCEPT ![Len(rest)] =
                                [caller EXCEPT !.pc = "after", !.val = v]]
                /\ events' = Append(evs, [ev |-> "ret", inv |-> caller.id, value |-> v])
    /\ UNCHANGED ninv

\* TraceLogger.trace, wrapper, lines 20-21: the entry record, then the call
trace_enter ==
    /\ stack # <<>>
    /\ Top.kind = "trace"
    /\ Top.pc = "start"
    /\ events' = Append(LogTo(events, "DEBUG", TraceLoggerLevel, Top.id,
                              <<"Entering", Top.func, Top.args>>),
                        [ev |-> "call", inv |-> Top.id])
    /\ stack' = SetTop([Top EXCEPT !.pc = "body"])
    /\ UNCHANGED <<tracing, ninv, done>>
    /\ UNCHANGED sinkVars

\* TraceLogger.trace, wrapper, lines 22-23: the exit record, then return result
trace_exit ==
    /\ stack # <<>>
    /\ Top.kind = "trace"
    /\ Top.pc = "after"
    /\ Return(LogTo(events, "DEBUG", TraceLoggerLevel, Top.id,
                    <<"Exiting", Top.func, Top.val>>), Top.val)
    /\ UNCHANGED tracing
    /\ UNCHANGED sinkVars

\* PerformanceLogger.log_performance, wrapper, lines 129-131:
\* time.time(), tracemalloc.start(), then the call
log_performance_enter ==
    /\ stack # <<>>
    /\ Top.kind = "perf"
    /\ Top.pc = "start"
    /\ tracing' = TRUE
    /\ events' = Append(events, [ev |-> "call", inv |-> Top.id])
    /\ stack' = SetTop([Top EXCEPT !.pc = "body"])
    /\ UNCHANGED <<ninv, done>>
    /\ UNCHANGED sinkVars

\* PerformanceLogger.log_performance, wrapper, lines 132-138:
\* get_traced_memory() (zeros when tracemalloc is not tracing),
\* tracemalloc.stop(), the info record, then return result
log_performance_exit ==
    /\ stack # <<>>
    /\ Top.kind = "perf"
    /\ Top.pc = "after"
    /\ tracing' = FALSE
    /\ Return(LogTo(events, "INFO", PerformanceLoggerLevel, Top.id,
                    <<"Function", Top.func, "executed", tracing>>), Top.val)
    /\ UNCHANGED sinkVars

\* json_log, wrapper, lines 210-217: context_info, the entry record, then
\* the call. The callables here take positional arguments only: kwargs = {}
json_log_enter ==
    /\ stack # <<>>
    /\ Top.kind = "json"
    /\ Top.pc = "start"
    /\ events' = Append(LogExtra(events, "INFO", JsonLoggerLevel, Top.id,
                                 <<"Entering function", Top.func>>,
                                 context_info(Top.args, <<>>)),
                        [ev |-> "call", inv |-> Top.id])
    /\ stack' = SetTop([Top EXCEPT !.pc = "body"])
    /\ UNCHANGED <<tracing, ninv, done>>
    /\ UNCHANGED sinkVars

\* json_log, wrapper, lines 218-219: the exit record, whose message holds
\* the result and whose extra is the context_info of line 210, then return
json_log_exit ==
    /\ stack # <<>>
    /\ Top.kind = "json"
    /\ Top.pc = "after"
    /\ Return(LogExtra(events, "INFO", JsonLoggerLevel, Top.id,
                       <<"Exiting function", Top.func, "with result", Top.val>>,
                       context_info(Top.args, <<>>)), Top.val)
    /\ UNCHANGED tracing
    /\ UNCHANGED sinkVars

\* the wrapped callable runs to its return statement
FuncReturn ==
    /\ stack # <<>>
    /\ Top.pc = "body"
    /\ \/ Top.func = "sample_function"
       \/ Top.func = "divide" /\ divide_raises(Top.args[1], Top.args[2]) = None
       \/ Top.func = "compute_factorial" /\ Top.args[1] = 0
    /\ LET v == IF Top.func = "sample_function"
                THEN sample_function(Top.args[1], Top.args[2])
                ELSE IF Top.func = "divide" THEN divide(Top.args[1], Top.args[2])
                ELSE 1
       IN  /\ stack' = SetTop([Top EXCEPT !.pc = "after", !.val = v])
           /\ events' = Append(events, [ev |-> "ret", inv |-> Top.id, value |-> v])
    /\ UNCHANGED <<tracing, ninv, done>>
    /\ UNCHANGED sinkVars

\* the wrapped callable raises; no frame below catches, so the exception
\* leaves every wrapper on the stack, none of which runs another line
FuncRaise ==
    /\ stack # <<>>
    /\ Top.pc = "body"
    /\ Top.func = "divide"
    /\ divide_raises(Top.args[1], Top.args[2]) # None
    /\ LET exc == divide_raises(Top.args[1], Top.args[2])
           ids == {stack[k].id : k \in 1 .. Len(stack)}
       IN  /\ events' = Append(events, [ev |-> "raise", inv |-> Top.id, exc |-> exc])
           /\ done' = [i \in 1 .. Len(done) |->
                         IF i \in ids
                         THEN [done[i] EXCEPT !.status = "raised",
                                              !.value = WrapperPropagates(exc)]
                         ELSE done[i]]
    /\ stack' = <<>>
    /\ UNCHANGED <<tracing, ninv>>
    /\ UNCHANGED sinkVars

\* compute_factorial(n), n > 0: the name compute_factorial is bound to the
\* wrapper, so the nested call is a wrapper invocation of the same kind
FuncRecurse ==
    /\ stack # <<>>
    /\ Top.pc = "body"
    /\ Top.func = "compute_factorial"
    /\ Top.args[1] > 0
    /\ Push(SetTop([Top EXCEPT !.pc = "wait"]), Top.kind, Top.func,
            <<Top.args[1] - 1>>, Top.id)
    /\ UNCHANGED <<events, tracing>>
    /\ UNCHANGED sinkVars

NextWrap ==
    \/ \E kind \in {"trace", "perf", "json"}, func \in Funcs :
          \E args \in ArgsOf(func) : Call(kind, func, args)
    \/ trace_enter
    \/ trace_exit
    \/ log_performance_enter
    \/ log_performance_exit
    \/ json_log_enter
    \/ json_log_exit
    \/ FuncReturn
    \/ FuncRaise
    \/ FuncRecurse

SpecWrap == Init /\ [][NextWrap]_vars

----------------------------------------------------------------------------
(* Properties of the sinks, checked under Spec *)

DBSinks == {i \in 1 .. Len(handlers) : handlers[i].kind = "db"}

\* thread t's latest operation is a log call that entered handle() of sink i,
\* and the emit it made there has ended
EmitEnded(t, i) ==
    /\ result[t].op = "log"
    /\ \E c \in BOOLEAN : <<i, c>> \in delivered[t]
    /\ ~(pc[t] = "emit" /\ idx[t] = i)

Raised(t) == result[t].exc \notin {None, "pending"}

\* C1: an emit issued on a Storage Sink after close() on that sink ends with
\* an error; it never returns normally (having written a row or not).
C1_EmitAfterCloseFails ==
    \A t \in Threads : \A i \in DBSinks :
        (<<i, TRUE>> \in delivered[t] /\ EmitEnded(t, i))
            => (Raised(t) /\ pc[t] = "idle")

C1_Witness ==
    \E t \in Threads : \E i \in DBSinks :
        /\ <<i, TRUE>> \in delivered[t]
        /\ EmitEnded(t, i)
        /\ result[t].exc = "AttributeError"
        /\ handlers[i].rows = <<>>

\* C2: a failure inside a Storage Sink's emit never reaches the code that
\* made the logging call: every logging call returns normally.
C2_EmitFailureNeverPropagates ==
    \A t \in Threads : result[t].op = "log" => ~Raised(t)

\* C3: a finished logging call has handed its record to every sink that was
\* attached when it started, whatever happened inside the sinks before it.
C3_EverySinkReceives ==
    \A t \in Threads :
        (result[t].op = "log" /\ pc[t] = "idle")
            => \A i \in 1 .. result[t].n : \E c \in BOOLEAN : <<i, c>> \in delivered[t]

\* C4: at most one thread at a time is inside emit on one Storage Sink.
C4_EmitSerialized ==
    \A i \in DBSinks :
        Cardinality({t \in Threads : pc[t] = "emit" /\ idx[t] = i}) <= 1

\* one thread is inside emit on a Storage Sink while another waits for it
C4_Witness ==
    \E i \in DBSinks : \E t1, t2 \in Threads :
        /\ t1 # t2
        /\ pc[t1] = "emit" /\ idx[t1] = i
        /\ pc[t2] = "callHandlers" /\ idx[t2] = i
        /\ handlers[i].lock = t1

\* C5: once each of the N threads has made one accepted logging call on a
\* logger whose first sink is a Storage Sink, that sink's store holds N rows,
\* one per caller.
C5_NCallersNRows ==
    (/\ Len(handlers) >= 1
     /\ handlers[1].kind = "db"
     /\ nrec = NThreads
     /\ \A t \in Threads : pc[t] = "idle" /\ result[t].op = "log" /\ result[t].n >= 1)
        => /\ Len(handlers[1].rows) = NThreads
           /\ \A t \in Threads : \E k \in 1 .. Len(handlers[1].rows) :
                  handlers[1].rows[k][4] = t

\* C6: every failed delivery of an HTTPHandler went to handleError exactly
\* once, and no request failure ever left emit as an exception.
C6_HTTPFailureIsolated ==
    /\ \A i \in 1 .. Len(handlers) :
          handlers[i].kind = "http"
             => handlers[i].errors =
                  Cardinality({k \in 1 .. Len(handlers[i].out) : handlers[i].out[k].failed})
    /\ \A t \in Threads : result[t].exc \notin {"HTTPError", "ConnectionError", "Timeout"}

\* a logging call whose request failed has returned normally
C6_Witness ==
    \E t \in Threads : \E i \in 1 .. Len(handlers) :
        /\ handlers[i].kind = "http"
        /\ handlers[i].errors = 1
        /\ Len(handlers[i].out) = 1 /\ handlers[i].out[1].failed
        /\ <<i, FALSE>> \in delivered[t]
        /\ pc[t] = "idle" /\ result[t].op = "log" /\ result[t].exc = None

\* C7: after close() on a sqlite or postgres sink its connection is closed.
C7_CloseReleasesConnection ==
    \A i \in DBSinks :
        (handlers[i].db_type \in {"sqlite", "postgres"} /\ handlers[i].closed)
            => ~handlers[i].connOpen

NeedsDriver == {"mongodb", "postgres"}

\* C15: a configure_db_logger call whose dialect tag is unknown, or whose
\* dialect's driver cannot be imported, ends with an error and leaves the
\* logger's sinks as they were; any construction that ends with an error
\* adds no sink; a construction with a known dialect, an available driver and
\* a reachable store succeeds, and a successful one adds exactly one sink,
\* of that dialect, holding its one connection.
C15_Construction ==
    [][\A t \in Threads :
          (result'[t] # result[t] /\ result'[t].op = "configure_db_logger")
             => LET r == result'[t]
                    unusable == \/ r.db_type \notin DBTypes
                                \/ r.db_type \in NeedsDriver /\ ~r.drv
                    n == Len(handlers)
                IN  /\ unusable => r.exc # None
                    /\ (~unusable /\ r.conn) => r.exc = None
                    /\ r.exc # None => handlers' = handlers
                    /\ r.exc = None
                         => /\ Len(handlers') = n + 1
                            /\ SubSeq(handlers', 1, n) = handlers
                            /\ handlers'[n + 1].kind = "db"
                            /\ handlers'[n + 1].db_type = r.db_type
                            /\ handlers'[n + 1].db_type \in DBTypes
                            /\ handlers'[n + 1].connOpen = (r.db_type # "mongodb")
                            /\ handlers'[n + 1].rows = <<>>]_vars

\* one thread's construction with an unknown dialect failed and added
\* nothing, another's with sqlite added the only sink there is
C15_Witness ==
    \E t1, t2 \in Threads :
        /\ result[t1].op = "configure_db_logger"
        /\ result[t1].db_type = "oracle"
        /\ result[t1].exc = "ValueError"
        /\ result[t2].op = "configure_db_logger"
        /\ result[t2].db_type = "sqlite"
        /\ result[t2].exc = None
        /\ Len(handlers) = 1
        /\ handlers[1].kind = "db" /\ handlers[1].connOpen

----------------------------------------------------------------------------
(* Properties of the configuration calls and formatters, checked under     *)
(* SpecConfig                                                              *)

\* C16: JsonFormatter.format raises for no record: whenever a handler with a
\* JsonFormatter is about to format the record in flight, format returns a
\* payload; and no logging call ends with a formatting error.
C16_FormatNeverRaises ==
    /\ \A t \in Threads :
          (pc[t] = "emit" /\ handlers[idx[t]].fmt = "json")
             => JsonFormatRaises(cur[t]) = None
    /\ \A t \in Threads : result[t].exc # "TypeError"

\* C17: a logger that has a handler attached by configure_json_logger or
\* configure_xml_logger accepts info records, whatever other configuration
\* calls were made.
C17_InfoAccepted ==
    (\E i \in 1 .. Len(handlers) :
        handlers[i].kind = "stream" /\ handlers[i].fmt \in {"json", "xml"})
       => IsEnabledFor("INFO", loggerLevel)

\* which handlers are attached, in order
HandlerSet ==
    [i \in 1 .. Len(handlers) |->
        <<handlers[i].kind, handlers[i].fmt, handlers[i].db_type>>]

\* a step that is no configuration call leaves the attached handlers as they
\* are; a configuration call leaves them as they are or appends one handler
\* to them, never removing or replacing one
OnlyAccumulate ==
    /\ ncalls' = ncalls => HandlerSet' = HandlerSet
    /\ ncalls' # ncalls
         => \/ handlers' = handlers
            \/ /\ Len(handlers') = Len(handlers) + 1
               /\ SubSeq(handlers', 1, Len(handlers)) = handlers

\* the handlers thread t's logging call has entered: the first k attached
\* ones, each once
Visited(t) == {d[1] : d \in delivered[t]}

\* a logging call hands its record to the handlers in the order they were
\* attached, once to each
OncePerHandler ==
    \A t \in Threads :
        /\ Cardinality(delivered[t]) = Cardinality(Visited(t))
        /\ Visited(t) = 1 .. Cardinality(Visited(t))

\* every finished logging call handed its record to every handler attached
\* when it was made
EveryHandler ==
    \A t \in Threads :
        (result[t].op = "log" /\ pc[t] = "idle")
           => Cardinality(Visited(t)) >= result[t].n

\* a logging call that returned handed its record to every handler attached
\* when it was made
EveryHandlerOnReturn ==
    \A t \in Threads :
        (result[t].op = "log" /\ pc[t] = "idle" /\ result[t].exc = None)
           => Cardinality(Visited(t)) >= result[t].n

----------------------------------------------------------------------------
(* Properties of the wrappers, checked under SpecWrap *)

\* the positions in events of the records invocation id emitted itself
OwnLogs(id) == {k \in 1 .. Len(events) : events[k].ev = "log" /\ events[k].inv = id}

\* the positions at which invocation id's original callable was entered,
\* returned, raised
Marks(id, what) == {k \in 1 .. Len(events) : events[k].ev = what /\ events[k].inv = id}

First(S) == CHOOSE m \in S : \A k \in S : m <= k

Last(S) == CHOOSE m \in S : \A k \in S : m >= k

Invocations(kind, status) ==
    {id \in 1 .. Len(done) : done[id].kind = kind /\ done[id].status = status}

\* C8: a trace-wrapped invocation that returned emitted exactly two debug
\* records, the entry record (name, arguments) before the original callable
\* was entered and the exit record (name, result) after it returned; the
\* callable was entered exactly once and the wrapper returned its result.
C8_TraceSuccess ==
    \A id \in Invocations("trace", "returned") :
        /\ Cardinality(OwnLogs(id)) = 2
        /\ Cardinality(Marks(id, "call")) = 1
        /\ Cardinality(Marks(id, "ret")) = 1
        /\ LET e == First(OwnLogs(id))
               x == Last(OwnLogs(id))
               c == First(Marks(id, "call"))
               r == First(Marks(id, "ret"))
           IN  /\ e < c /\ c < r /\ r < x
               /\ events[e].level = "DEBUG"
               /\ events[e].msg = <<"Entering", done[id].func, done[id].args>>
               /\ events[x].level = "DEBUG"
               /\ events[x].msg = <<"Exiting", done[id].func, events[r].value>>
               /\ done[id].value = events[r].value

\* sample_function(1, 1) returned 2 through the trace wrapper
C8_Witness ==
    \E id \in Invocations("trace", "returned") :
        /\ done[id].func = "sample_function"
        /\ done[id].args = <<1, 1>>
        /\ done[id].value = 2
        /\ Cardinality(OwnLogs(id)) = 2

\* C9: a trace-wrapped invocation whose callable raised emitted the entry
\* record and no other record, and its caller got the exception the callable
\* raised.
C9_TraceFailure ==
    \A id \in Invocations("trace", "raised") :
        /\ Cardinality(OwnLogs(id)) = 1
        /\ Cardinality(Marks(id, "call")) = 1
        /\ Cardinality(Marks(id, "raise")) = 1
        /\ Marks(id, "ret") = {}
        /\ LET e == First(OwnLogs(id))
               c == First(Marks(id, "call"))
               r == First(Marks(id, "raise"))
           IN  /\ e < c /\ c < r
               /\ events[e].msg = <<"Entering", done[id].func, done[id].args>>
               /\ done[id].value = events[r].exc

\* divide(1, 0) raised ValueError through the trace wrapper
C9_Witness ==
    \E id \in Invocations("trace", "raised") :
        /\ done[id].func = "divide"
        /\ done[id].args = <<1, 0>>
        /\ done[id].value = "ValueError"
        /\ Cardinality(OwnLogs(id)) = 1

\* C10: a performance-wrapped invocation that returned emitted exactly one
\* info record, after its callable returned, and returned the callable's
\* result; the record of an invocation nested in it came before its own.
C10_PerformanceSuccess ==
    \A id \in Invocations("perf", "returned") :
        /\ Cardinality(OwnLogs(id)) = 1
        /\ Cardinality(Marks(id, "call")) = 1
        /\ Cardinality(Marks(id, "ret")) = 1
        /\ LET x == First(OwnLogs(id))
               r == First(Marks(id, "ret"))
           IN  /\ r < x
               /\ events[x].level = "INFO"
               /\ events[x].msg[2] = done[id].func
               /\ done[id].value = events[r].value
               /\ \A in \in 1 .. Len(done) :
                     done[in].parent = id
                        => /\ Cardinality(OwnLogs(in)) = 1
                           /\ First(OwnLogs(in)) < x

\* compute_factorial(1) returned 1 through the performance wrapper, with its
\* nested invocation's record before its own
C10_Witness ==
    \E id \in Invocations("perf", "returned") : \E in \in Invocations("perf", "returned") :
        /\ done[id].func = "compute_factorial"
        /\ done[id].args = <<1>>
        /\ done[id].parent = 0
        /\ done[id].value = 1
        /\ done[in].parent = id
        /\ \E x \in OwnLogs(id), y \in OwnLogs(in) : y < x

\* C11: for every performance-wrapped invocation that returned, nested ones
\* and the ones they are nested in alike, the memory-profiling facility was
\* still running when the invocation's memory usage was read.
C11_ProfilingActiveAtRead ==
    \A id \in Invocations("perf", "returned") :
        \A x \in OwnLogs(id) : events[x].msg[4] = TRUE

\* C12: a performance-wrapped invocation whose callable raised emitted no
\* record at all, its callable was entered once and never returned, and its
\* caller got the exception the callable raised.
C12_PerformanceFailure ==
    \A id \in Invocations("perf", "raised") :
        /\ OwnLogs(id) = {}
        /\ Cardinality(Marks(id, "call")) = 1
        /\ Marks(id, "ret") = {}
        /\ Cardinality(Marks(id, "raise")) = 1
        /\ LET c == First(Marks(id, "call"))
               r == First(Marks(id, "raise"))
           IN  /\ c < r
               /\ done[id].value = events[r].exc

\* divide(1, 0) raised ValueError through the performance wrapper
C12_Witness ==
    \E id \in Invocations("perf", "raised") :
        /\ done[id].func = "divide"
        /\ done[id].args = <<1, 0>>
        /\ done[id].value = "ValueError"
        /\ OwnLogs(id) = {}
        /\ stack = <<>>

\* C19: whenever no performance-wrapped call is in progress, whether the
\* calls before returned or raised, the memory-profiling facility is not
\* running.
C19_ProfilingBalanced ==
    (\A k \in 1 .. Len(stack) : stack[k].kind # "perf") => ~tracing

\* the keys of a record's context other than the ones holding the arguments
ResultKeys(ctx) == DOMAIN ctx \ {"args", "kwargs"}

\* C14: a json_log-wrapped invocation that returned emitted exactly two
\* records, the entry record before the callable was entered and the exit
\* record after it returned, and returned the callable's result; both records
\* carry the arguments in their context, the exit record's context holds the
\* return value, and the message texts hold neither.
C14_ContextualSuccess ==
    \A id \in Invocations("json", "returned") :
        /\ Cardinality(OwnLogs(id)) = 2
        /\ Cardinality(Marks(id, "call")) = 1
        /\ Cardinality(Marks(id, "ret")) = 1
        /\ LET e == First(OwnLogs(id))
               x == Last(OwnLogs(id))
               c == First(Marks(id, "call"))
               r == First(Marks(id, "ret"))
           IN  /\ e < c /\ c < r /\ r < x
               /\ done[id].value = events[r].value
               /\ events[e].context.args = done[id].args
               /\ events[x].context.args = done[id].args
               /\ events[e].msg = <<"Entering function", done[id].func>>
               /\ events[x].msg = <<"Exiting function", done[id].func>>
               /\ \E key \in ResultKeys(events[x].context) :
                     events[x].context[key] = events[r].value

====
